---- MODULE Spec2Model ----
(***************************************************************************)
(* State-machine model of the WebSocketSessionManager relay                *)
(* (src/unnamed/part_001) together with the upgrade router that feeds it   *)
(* (src/unnamed/part_000, wss.on("connection")).                           *)
(*                                                                         *)
(* One action is one callback of the Node event loop (one macrotask with   *)
(* the microtasks it queues): a socket accepted by the router, a message,  *)
(* error or close event of a socket, a timer firing.  A method of the      *)
(* class is an operator from the program state S (a record of all the      *)
(* fields) to the program state after the call, so that a handler is the   *)
(* composition of the calls its body makes.                                *)
(***************************************************************************)
EXTENDS Integers, Sequences, FiniteSets, TLC

VARIABLES session, socks, currentCall, currentLogs, connectionStartTime,
          reconnectAttempts, reconnectTimer, closeAlls, dispatches,
          out, invoked, abandoned, fails, announced

vars == <<session, socks, currentCall, currentLogs, connectionStartTime,
          reconnectAttempts, reconnectTimer, closeAlls, dispatches,
          out, invoked, abandoned, fails, announced>>

----------------------------------------------------------------------------
(* Bound of the model: how many socket objects are alive at a time (a      *)
(* closed socket nothing refers to any more is garbage).                   *)

MaxSockets == 3

(* How many handler invocations of function calls are in flight at a time. *)
MaxDispatches == 2

(* Program constants. *)

maxReconnectAttempts == 3

BackoffBaseMs == 1000

----------------------------------------------------------------------------
(* Values.  An absent (undefined) field is Undefined for a string, NoNum   *)
(* for a number and NoSock for a socket handle.                            *)

Undefined == "undefined"

NoNum == 0 - 1

NoSock == 0

Absent == "absent"

Truthy(s) == s # Undefined /\ s # ""

NumOr0(n) == IF n = NoNum THEN 0 ELSE n

SockIds == 1 .. MaxSockets

OPENAI_API_KEY == "sk-key"

(* The session configuration objects: one field per top-level key, Absent  *)
(* when the object does not have the key.                                  *)
ConfigKeys ==
  {"modalities", "turn_detection", "voice", "input_audio_transcription",
   "input_audio_format", "output_audio_format", "temperature"}

EmptyObject == [k \in ConfigKeys |-> Absent]

DefaultSessionConfig ==
  [modalities |-> "text,audio",
   turn_detection |-> "server_vad",
   voice |-> "ash",
   input_audio_transcription |-> "whisper-1",
   input_audio_format |-> "g711_ulaw",
   output_audio_format |-> "g711_ulaw",
   temperature |-> Absent]

(* An optional configuration object (saved_config, msg.session).           *)
NoConfig == [defined |-> FALSE, obj |-> EmptyObject]

SomeConfig(o) == [defined |-> TRUE, obj |-> o]

(* { ...base, ...over }: a key of over replaces the same key of base.      *)
SpreadBaseWins(base, over) ==
  [k \in ConfigKeys |-> IF base[k] # Absent THEN base[k] ELSE over[k]]

Spread(base, over) ==
  [k \in ConfigKeys |-> IF over[k] # Absent THEN over[k] ELSE base[k]]

(* The item of a response.output_item.done or conversation.item.create     *)
(* event.                                                                  *)
NoItem ==
  [type |-> Undefined, name |-> Undefined, arguments |-> Undefined,
   call_id |-> Undefined, output |-> Undefined]

(* A JSON frame, inbound or outbound.  type is the discriminator (the      *)
(* telephony protocol calls it event); the audio payloads are opaque and   *)
(* left out.                                                               *)
Frame(t) ==
  [type |-> t, streamSid |-> Undefined, timestamp |-> NoNum,
   item_id |-> Undefined, content_index |-> NoNum, audio_end_ms |-> NoNum,
   session |-> NoConfig, item |-> NoItem]

Malformed == Frame("#malformed")

EmptySession ==
  [twilioConn |-> NoSock, frontendConn |-> NoSock, modelConn |-> NoSock,
   streamSid |-> Undefined, saved_config |-> NoConfig,
   lastAssistantItem |-> Undefined, responseStartTimestamp |-> NoNum,
   latestMediaTimestamp |-> NoNum, openAIApiKey |-> Undefined]

----------------------------------------------------------------------------
(* Inputs: the frames a peer can send, over given sets of values.          *)

TwilioMessages(sids, stamps) ==
  {Malformed, Frame("close")}
    \cup {[Frame("start") EXCEPT !.streamSid = s] : s \in sids}
    \cup {[Frame("media") EXCEPT !.timestamp = t] : t \in stamps}

FrontendMessages(payloads) ==
  {Malformed, Frame("response.create")}
    \cup {[Frame("session.update") EXCEPT !.session = c] : c \in payloads}

ModelEvents(items) ==
  {Malformed, Frame("session.created"),
   Frame("input_audio_buffer.speech_started")}
    \cup {[Frame("response.audio.delta") EXCEPT !.item_id = i] : i \in items}

Alloy == SomeConfig([EmptyObject EXCEPT !.voice = "alloy"])

(* response.output_item.done: a function call of the model with the given  *)
(* names, arguments texts and call ids (each may be missing), or an item   *)
(* that is not a function call.                                            *)
FunctionCalls(names, texts, ids) ==
  {[Frame("response.output_item.done") EXCEPT !.item.type = "message"]}
    \cup {[Frame("response.output_item.done") EXCEPT
             !.item = [NoItem EXCEPT !.type = "function_call", !.name = n,
                                     !.arguments = a, !.call_id = c]] :
            n \in names, a \in texts, c \in ids}

----------------------------------------------------------------------------
(* The program state as one record, and its assignment to the variables.   *)

NoSocket == [kind |-> "none", readyState |-> "CLOSED"]

Cur ==
  [session |-> session, socks |-> socks, currentCall |-> currentCall,
   currentLogs |-> currentLogs, connectionStartTime |-> connectionStartTime,
   reconnectAttempts |-> reconnectAttempts, reconnectTimer |-> reconnectTimer,
   closeAlls |-> closeAlls, dispatches |-> dispatches, out |-> <<>>,
   invoked |-> <<>>, fresh |-> NoSock, blocked |-> FALSE, on |-> NoSock,
   announced |-> announced]

(* A closed socket raises no more events and takes no more frames: once    *)
(* the session does not refer to it, its identity is free again.  The      *)
(* router's currentCall and currentLogs may still name it, only to call    *)
(* close() on it, which does nothing to a closed socket: they are NoSock   *)
(* from then on.                                                           *)
Referenced(S) ==
  {S.session.twilioConn, S.session.frontendConn, S.session.modelConn}
    \cup UNION S.closeAlls

Collected(S) ==
  {i \in SockIds : S.socks[i].readyState = "CLOSED" /\ i \notin Referenced(S)}

Becomes(S) ==
  /\ ~S.blocked
  /\ session' = S.session
  /\ socks' = [i \in SockIds |->
                IF i \in Collected(S) THEN NoSocket ELSE S.socks[i]]
  /\ currentCall' = IF S.currentCall \in Collected(S) THEN NoSock
                    ELSE S.currentCall
  /\ currentLogs' = IF S.currentLogs \in Collected(S) THEN NoSock
                    ELSE S.currentLogs
  /\ connectionStartTime' = S.connectionStartTime
  /\ reconnectAttempts' = S.reconnectAttempts
  /\ reconnectTimer' = S.reconnectTimer
  /\ closeAlls' = S.closeAlls
  /\ dispatches' = [i \in DOMAIN S.dispatches |->
                     IF S.dispatches[i].from \in Collected(S)
                     THEN [S.dispatches[i] EXCEPT !.from = NoSock]
                     ELSE S.dispatches[i]]
  /\ out' = S.out
  /\ invoked' = S.invoked
  /\ announced' = IF S.session.twilioConn = NoSock THEN Undefined
                  ELSE S.announced

----------------------------------------------------------------------------
(* Connection guard helpers.                                               *)

isOpen(S, ws) == ws # NoSock /\ S.socks[ws].readyState = "OPEN"

(* ws.send on an open socket is taken to succeed; the frame is appended to *)
(* the frames this callback has sent.                                      *)
jsonSend(S, ws, obj) ==
  IF ~isOpen(S, ws) THEN S
  ELSE [S EXCEPT !.out = Append(@, [to |-> ws, frame |-> obj])]

hasActiveConnections(S) ==
  \/ S.session.twilioConn # NoSock
  \/ S.session.frontendConn # NoSock
  \/ S.session.modelConn # NoSock

(* ws.close() of an open socket starts the closing handshake; a socket     *)
(* that is not open (connecting included) is left alone.  The 5 s timer    *)
(* terminates a socket whose close event may come at any time anyway, so   *)
(* it is modelled only where its promise is awaited (closeAllConnections). *)
cleanupConnection(S, ws) ==
  IF ~isOpen(S, ws) THEN S
  ELSE [S EXCEPT !.socks[ws].readyState = "CLOSING"]

resetSessionData(S) ==
  [S EXCEPT !.session.lastAssistantItem = Undefined,
            !.session.responseStartTimestamp = NoNum]

(* reconnectTimer is the delay of the pending timer, 0 when none is        *)
(* pending.                                                                *)
resetSession(S) ==
  [S EXCEPT !.reconnectTimer = 0,
            !.session = EmptySession,
            !.connectionStartTime = FALSE,
            !.reconnectAttempts = 0]

closeModel(S) ==
  LET S1 == [cleanupConnection(S, S.session.modelConn)
               EXCEPT !.session.modelConn = NoSock]
  IN  IF ~hasActiveConnections(S1) THEN resetSession(S1) ELSE S1

scheduleReconnect(S) ==
  [S EXCEPT !.reconnectTimer = (2 ^ S.reconnectAttempts) * BackoffBaseMs]

handleConnectionError(S, type) ==
  IF type = "model" /\ S.reconnectAttempts < maxReconnectAttempts
  THEN scheduleReconnect(S)
  ELSE S

handleConnectionClose(S, type) ==
  LET S1 ==
        CASE type = "twilio" ->
               LET A == cleanupConnection(S, S.session.modelConn)
                   B == cleanupConnection(A, A.session.twilioConn)
               IN  resetSessionData(
                     [B EXCEPT !.session.twilioConn = NoSock,
                               !.session.modelConn = NoSock])
          [] type = "frontend" ->
               [cleanupConnection(S, S.session.frontendConn)
                  EXCEPT !.session.frontendConn = NoSock]
          [] OTHER -> closeModel(S)
  IN  IF ~hasActiveConnections(S1) THEN resetSession(S1) ELSE S1

----------------------------------------------------------------------------
(* Sockets.                                                                *)

(* A socket object comes into being: the lowest unused identity.  When     *)
(* MaxSockets sockets are alive the callback is not taken.                 *)
newSocket(S, kind, state) ==
  IF \A i \in SockIds : S.socks[i].kind # "none"
  THEN [S EXCEPT !.blocked = TRUE]
  ELSE LET id == CHOOSE i \in SockIds :
                   /\ S.socks[i].kind = "none"
                   /\ \A j \in SockIds : j < i => S.socks[j].kind # "none"
       IN  [S EXCEPT !.socks[id] = [kind |-> kind, readyState |-> state],
                     !.fresh = id]

(* The socket newSocket has just made.                                     *)
lastSocket(S) == S.fresh

tryConnectModelNoGuard(S) ==
  IF isOpen(S, S.session.modelConn) THEN S
  ELSE LET S1 == newSocket(S, "model", "CONNECTING")
       IN  IF S1.blocked THEN S1
           ELSE [S1 EXCEPT !.session.modelConn = lastSocket(S1),
                           !.reconnectAttempts = 0]

tryConnectModel(S) ==
  IF \/ S.session.twilioConn = NoSock
     \/ ~Truthy(S.session.streamSid)
     \/ ~Truthy(S.session.openAIApiKey)
  THEN S
  ELSE IF isOpen(S, S.session.modelConn) THEN S
  ELSE LET S1 == newSocket(S, "model", "CONNECTING")
       IN  IF S1.blocked THEN S1
           ELSE [S1 EXCEPT !.session.modelConn = lastSocket(S1),
                           !.reconnectAttempts = 0]

(* The "open" handler setupModelConnection attaches.                       *)
modelOnOpen(S) ==
  LET config == IF S.session.saved_config.defined
                THEN S.session.saved_config.obj
                ELSE EmptyObject
  IN  jsonSend(S, S.session.modelConn,
               [Frame("session.update") EXCEPT
                  !.session = SomeConfig(Spread(DefaultSessionConfig, config))])

----------------------------------------------------------------------------
(* Model-leg events.                                                       *)

handleAudioDelta(S, event) ==
  IF S.session.twilioConn # NoSock /\ Truthy(S.session.streamSid)
  THEN LET S1 == IF S.session.responseStartTimestamp = NoNum
                 THEN [S EXCEPT !.session.responseStartTimestamp =
                                   NumOr0(S.session.latestMediaTimestamp)]
                 ELSE S
           S2 == IF Truthy(event.item_id)
                 THEN [S1 EXCEPT !.session.lastAssistantItem = event.item_id]
                 ELSE S1
           S3 == jsonSend(S2, S2.session.twilioConn,
                          [Frame("media") EXCEPT
                             !.streamSid = S2.session.streamSid])
       IN  jsonSend(S3, S3.session.twilioConn,
                    [Frame("mark") EXCEPT !.streamSid = S3.session.streamSid])
  ELSE S

Max0(n) == IF n > 0 THEN n ELSE 0

handleTruncationNoClamp(S) ==
  IF ~Truthy(S.session.lastAssistantItem)
       \/ S.session.responseStartTimestamp = NoNum
  THEN S
  ELSE LET elapsedMs == NumOr0(S.session.latestMediaTimestamp)
                          - NumOr0(S.session.responseStartTimestamp)
           S1 == IF isOpen(S, S.session.modelConn)
                 THEN jsonSend(S, S.session.modelConn,
                               [Frame("conversation.item.truncate") EXCEPT
                                  !.item_id = S.session.lastAssistantItem,
                                  !.content_index = 0,
                                  !.audio_end_ms = elapsedMs])
                 ELSE S
           S2 == IF S1.session.twilioConn # NoSock
                      /\ Truthy(S1.session.streamSid)
                 THEN jsonSend(S1, S1.session.twilioConn,
                               [Frame("clear") EXCEPT
                                  !.streamSid = S1.session.streamSid])
                 ELSE S1
       IN  resetSessionData(S2)

handleTruncationNoGuard(S) ==
  LET elapsedMs == NumOr0(S.session.latestMediaTimestamp)
                     - NumOr0(S.session.responseStartTimestamp)
      audio_end_ms == Max0(elapsedMs)
      S2 == IF S.session.twilioConn # NoSock /\ Truthy(S.session.streamSid)
            THEN jsonSend(S, S.session.twilioConn,
                          [Frame("clear") EXCEPT
                             !.streamSid = S.session.streamSid])
            ELSE S
  IN  resetSessionData(S2)

handleTruncation(S) ==
  IF ~Truthy(S.session.lastAssistantItem)
       \/ S.session.responseStartTimestamp = NoNum
  THEN S
  ELSE LET elapsedMs == NumOr0(S.session.latestMediaTimestamp)
                          - NumOr0(S.session.responseStartTimestamp)
           audio_end_ms == Max0(elapsedMs)
           S1 == IF isOpen(S, S.session.modelConn)
                 THEN jsonSend(S, S.session.modelConn,
                               [Frame("conversation.item.truncate") EXCEPT
                                  !.item_id = S.session.lastAssistantItem,
                                  !.content_index = 0,
                                  !.audio_end_ms = audio_end_ms])
                 ELSE S
           S2 == IF S1.session.twilioConn # NoSock
                      /\ Truthy(S1.session.streamSid)
                 THEN jsonSend(S1, S1.session.twilioConn,
                               [Frame("clear") EXCEPT
                                  !.streamSid = S1.session.streamSid])
                 ELSE S1
       IN  resetSessionData(S2)

----------------------------------------------------------------------------
(* Function calls.                                                         *)

(* The registry function-handlers exports: the schema names, in the order  *)
(* of registration.                                                        *)
getWeatherFromCoords == "get_weather_from_coords"

scheduleCalendlyMeeting == "schedule_calendly_meeting"

functionHandlers == <<getWeatherFromCoords, scheduleCalendlyMeeting>>

(* functionHandlers.find((f) => f.schema.name === name) finds a handler.   *)
Registered(name) ==
  \E i \in DOMAIN functionHandlers : functionHandlers[i] = name

(* JSON.parse of an arguments text: the kind of value it yields, or        *)
(* "SyntaxError" when it throws (a missing text included).                 *)
JSONparse(text) ==
  CASE text = "{}" -> "object"
    [] text = "null" -> "null"
    [] OTHER -> "SyntaxError"

(* JSON.stringify of a string, and of the object { error: text }.          *)
JSONstringify(str) == "'" \o str \o "'"

ErrorResult(text) == "{error:" \o text \o "}"

(* How the promise of a handler settles: fulfilled with a text or rejected *)
(* with an Error carrying a message.  The calendly handler catches every   *)
(* failure and reports it in its text.                                     *)
Settlements(name) ==
  IF name = scheduleCalendlyMeeting
  THEN {[ok |-> TRUE, value |-> "{success:true}"],
        [ok |-> TRUE, value |-> "{success:false}"]}
  ELSE {[ok |-> TRUE, value |-> "{temp:21}"],
        [ok |-> FALSE, value |-> "fetch failed"]}

(* The calendly handler reads args.eventType before its first await: with  *)
(* arguments that are null it fails inside its try block and its promise   *)
(* is fulfilled in the callback that invoked it.                           *)
SettlesAtOnce(name, args) == name = scheduleCalendlyMeeting /\ args = "null"

(* handleFunctionCall once the handler's promise has settled: the result   *)
(* as it is, or the error payload of the catch block.                      *)
handlerSettled(name, settlement) ==
  IF settlement.ok THEN settlement.value
  ELSE ErrorResult("Error running function " \o name \o ": "
                     \o settlement.value)

handleFunctionCallNoLookup(S, item) ==
  IF JSONparse(item.arguments) = "SyntaxError"
  THEN [S |-> S, settled |-> TRUE,
        output |-> ErrorResult("Invalid JSON arguments for function call.")]
  ELSE LET S1 == [S EXCEPT !.invoked = Append(@, item.name)]
       IN  IF SettlesAtOnce(item.name, JSONparse(item.arguments))
           THEN [S |-> S1, settled |-> TRUE,
                 output |-> handlerSettled(item.name,
                              [ok |-> TRUE, value |-> "{success:false}"])]
           ELSE IF Len(S1.dispatches) >= MaxDispatches
           THEN [S |-> [S1 EXCEPT !.blocked = TRUE], settled |-> FALSE,
                 output |-> Undefined]
           ELSE [S |-> [S1 EXCEPT !.dispatches =
                                     Append(@, [name |-> item.name,
                                                call_id |-> item.call_id,
                                                from |-> S.on])],
                 settled |-> FALSE, output |-> Undefined]

(* handleFunctionCall up to its return or to the await of the handler:     *)
(* settled tells which, output is what it returns.  A handler invoked and  *)
(* not settled is in flight in dispatches, with the socket whose event     *)
(* asked for it (NoSock once that socket is garbage).                      *)
handleFunctionCall(S, item) ==
  IF ~Registered(item.name)
  THEN [S |-> S, settled |-> TRUE,
        output |-> ErrorResult("Error running function " \o item.name
                                 \o ": No handler found for function: "
                                 \o item.name)]
  ELSE IF JSONparse(item.arguments) = "SyntaxError"
  THEN [S |-> S, settled |-> TRUE,
        output |-> ErrorResult("Invalid JSON arguments for function call.")]
  ELSE LET S1 == [S EXCEPT !.invoked = Append(@, item.name)]
       IN  IF SettlesAtOnce(item.name, JSONparse(item.arguments))
           THEN [S |-> S1, settled |-> TRUE,
                 output |-> handlerSettled(item.name,
                              [ok |-> TRUE, value |-> "{success:false}"])]
           ELSE IF Len(S1.dispatches) >= MaxDispatches
           THEN [S |-> [S1 EXCEPT !.blocked = TRUE], settled |-> FALSE,
                 output |-> Undefined]
           ELSE [S |-> [S1 EXCEPT !.dispatches =
                                     Append(@, [name |-> item.name,
                                                call_id |-> item.call_id,
                                                from |-> S.on])],
                 settled |-> FALSE, output |-> Undefined]

functionCallOutputResponseFirst(S, call_id, output) ==
  IF S.session.modelConn = NoSock THEN S
  ELSE LET S1 == jsonSend(S, S.session.modelConn, Frame("response.create"))
       IN  jsonSend(S1, S1.session.modelConn,
                    [Frame("conversation.item.create") EXCEPT
                       !.item = [NoItem EXCEPT
                                   !.type = "function_call_output",
                                   !.call_id = call_id,
                                   !.output = JSONstringify(output)]])

(* handleOutputItemDone after the await of handleFunctionCall.             *)
functionCallOutput(S, call_id, output) ==
  IF S.session.modelConn = NoSock THEN S
  ELSE LET S1 == jsonSend(S, S.session.modelConn,
                          [Frame("conversation.item.create") EXCEPT
                             !.item = [NoItem EXCEPT
                                         !.type = "function_call_output",
                                         !.call_id = call_id,
                                         !.output = JSONstringify(output)]])
       IN  jsonSend(S1, S1.session.modelConn, Frame("response.create"))

handleOutputItemDone(S, event) ==
  IF event.item.type = "function_call"
  THEN LET r == handleFunctionCall(S, event.item)
       IN  IF r.settled
           THEN functionCallOutput(r.S, event.item.call_id, r.output)
           ELSE r.S
  ELSE S

RemoveAt(seq, i) == SubSeq(seq, 1, i - 1) \o SubSeq(seq, i + 1, Len(seq))

(* The promise of the handler invocation i settles: handleFunctionCall     *)
(* returns and handleOutputItemDone goes on.                               *)
functionSettles(S, i, settlement) ==
  functionCallOutput([S EXCEPT !.dispatches = RemoveAt(@, i)],
                     S.dispatches[i].call_id,
                     handlerSettled(S.dispatches[i].name, settlement))

----------------------------------------------------------------------------
(* parseMessage returns null for a body that is not JSON.                  *)
Null == Frame("#null")

parseMessage(data) == IF data.type = "#malformed" THEN Null ELSE data

handleModelMessageMirrorLast(S, data) ==
  LET event == parseMessage(data)
  IN  IF event = Null THEN S
      ELSE LET S1 == CASE event.type = "input_audio_buffer.speech_started" ->
                            handleTruncation(S)
                       [] event.type = "response.audio.delta" ->
                            handleAudioDelta(S, event)
                       [] event.type = "response.output_item.done" ->
                            handleOutputItemDone(S, event)
                       [] OTHER -> S
           IN  jsonSend(S1, S1.session.frontendConn, event)

handleModelMessage(S, data) ==
  LET event == parseMessage(data)
  IN  IF event = Null THEN S
      ELSE LET S1 == jsonSend(S, S.session.frontendConn, event)
           IN  CASE event.type = "input_audio_buffer.speech_started" ->
                      handleTruncation(S1)
                 [] event.type = "response.audio.delta" ->
                      handleAudioDelta(S1, event)
                 [] event.type = "response.output_item.done" ->
                      handleOutputItemDone(S1, event)
                 [] OTHER -> S1

----------------------------------------------------------------------------
(* Telephony-leg and observer-leg messages.                                *)

(* The awaited part of closeAllConnections: once the last of the awaited   *)
(* cleanupConnection promises settles (the socket's close event or its 5 s *)
(* timer), the session is reset.  closeAlls holds, for each call of        *)
(* closeAllConnections that is still waiting, the sockets it waits for.    *)
settle(S, ws) ==
  LET rest == {p \ {ws} : p \in S.closeAlls}
      S1 == [S EXCEPT !.closeAlls = rest \ {{}}]
  IN  IF {} \in rest THEN resetSession(S1) ELSE S1

closeAllConnectionsKeepsConnecting(S) ==
  LET t == S.session.twilioConn
      m == S.session.modelConn
      f == S.session.frontendConn
      closingPromises == {ws \in {t, m, f} : isOpen(S, ws)}
      S1 == [cleanupConnection(S, t) EXCEPT !.session.twilioConn = NoSock]
      S2 == IF isOpen(S1, m)
            THEN [cleanupConnection(S1, m) EXCEPT !.session.modelConn = NoSock]
            ELSE S1
      S3 == [cleanupConnection(S2, f) EXCEPT !.session.frontendConn = NoSock]
  IN  IF closingPromises = {} THEN resetSession(S3)
      ELSE [S3 EXCEPT !.closeAlls = @ \cup {closingPromises}]

closeAllConnections(S) ==
  LET t == S.session.twilioConn
      m == S.session.modelConn
      f == S.session.frontendConn
      closingPromises == {ws \in {t, m, f} : isOpen(S, ws)}
      S1 == [cleanupConnection(S, t) EXCEPT !.session.twilioConn = NoSock]
      S2 == [cleanupConnection(S1, m) EXCEPT !.session.modelConn = NoSock]
      S3 == [cleanupConnection(S2, f) EXCEPT !.session.frontendConn = NoSock]
  IN  IF closingPromises = {} THEN resetSession(S3)
      ELSE [S3 EXCEPT !.closeAlls = @ \cup {closingPromises}]

handleTwilioMessage(S, data) ==
  LET msg == parseMessage(data)
  IN  IF msg = Null THEN S
      ELSE CASE msg.type = "start" ->
                  tryConnectModel(
                    [S EXCEPT !.session.streamSid = msg.streamSid,
                              !.session.latestMediaTimestamp = 0,
                              !.session.lastAssistantItem = Undefined,
                              !.session.responseStartTimestamp = NoNum])
             [] msg.type = "media" ->
                  LET S1 == [S EXCEPT !.session.latestMediaTimestamp =
                                        msg.timestamp]
                  IN  IF isOpen(S1, S1.session.modelConn)
                      THEN jsonSend(S1, S1.session.modelConn,
                                    Frame("input_audio_buffer.append"))
                      ELSE S1
             [] msg.type = "close" -> closeAllConnections(S)
             [] OTHER -> S

handleFrontendMessage(S, data) ==
  LET msg == parseMessage(data)
  IN  IF msg = Null THEN S
      ELSE LET S1 == IF isOpen(S, S.session.modelConn)
                     THEN jsonSend(S, S.session.modelConn, msg)
                     ELSE S
           IN  IF msg.type = "session.update"
               THEN [S1 EXCEPT !.session.saved_config = msg.session]
               ELSE S1

----------------------------------------------------------------------------
(* Accepting the telephony and the observer connection.                    *)

(* ws.close() as the router calls it on the connection it replaces.        *)
wsClose(S, ws) ==
  IF isOpen(S, ws) THEN [S EXCEPT !.socks[ws].readyState = "CLOSING"] ELSE S

(* The awaited cleanupConnection finds the previous connection already     *)
(* closing (the router has closed it), so the await resumes in the same    *)
(* callback: see PreviousConnectionNotOpen.                                *)
handleCallConnection(S, ws, openAIApiKey) ==
  [cleanupConnection(S, S.session.twilioConn)
     EXCEPT !.session.twilioConn = ws,
            !.session.openAIApiKey = openAIApiKey,
            !.connectionStartTime = TRUE]

handleFrontendConnection(S, ws) ==
  [cleanupConnection(S, S.session.frontendConn)
     EXCEPT !.session.frontendConn = ws]

(* wss.on("connection") for the paths /call and /logs.                     *)
onConnection(S, type) ==
  IF type = "call"
  THEN LET S1 == newSocket(wsClose(S, S.currentCall), "twilio", "OPEN")
       IN  IF S1.blocked THEN S1
           ELSE handleCallConnection(
                  [S1 EXCEPT !.currentCall = lastSocket(S1)],
                  lastSocket(S1), OPENAI_API_KEY)
  ELSE LET S1 == newSocket(wsClose(S, S.currentLogs), "frontend", "OPEN")
       IN  IF S1.blocked THEN S1
           ELSE handleFrontendConnection(
                  [S1 EXCEPT !.currentLogs = lastSocket(S1)],
                  lastSocket(S1))

----------------------------------------------------------------------------
(* Socket events.                                                          *)

(* The close event of a socket: the handler setupWebSocketHandlers or      *)
(* setupModelConnection attached, then the once("close") listener of a     *)
(* pending cleanupConnection.                                              *)
closeEvent(S, ws) ==
  settle(
    handleConnectionClose([S EXCEPT !.socks[ws].readyState = "CLOSED"],
                          S.socks[ws].kind),
    ws)

(* The callback scheduleReconnect hands to setTimeout.                     *)
reconnectTimerFires(S) ==
  tryConnectModel([S EXCEPT !.reconnectTimer = 0,
                            !.reconnectAttempts = @ + 1])

----------------------------------------------------------------------------
(* Bookkeeping for the properties (not program state):                     *)
(*   out        the frames the last callback sent, in order;               *)
(*   invoked    the names of the function handlers the last callback       *)
(*              invoked, in order;                                         *)
(*   abandoned  the model sockets that were the session's model leg, still *)
(*              connecting, when a telephony close frame was handled;      *)
(*   announced  the streamSid the start event of the session's telephony   *)
(*              connection has announced, Undefined before that event      *)
(*              (recorded by StreamMessage);                               *)
(*   fails      the model connection attempts that have failed in a row    *)
(*              (counted up to maxReconnectAttempts); 0 again once a model *)
(*              leg opens, a call is accepted, or no attempt is under way  *)
(*              and none is scheduled.                                     *)

Init ==
  /\ session = EmptySession
  /\ socks = [i \in SockIds |-> NoSocket]
  /\ currentCall = NoSock
  /\ currentLogs = NoSock
  /\ connectionStartTime = FALSE
  /\ reconnectAttempts = 0
  /\ reconnectTimer = 0
  /\ closeAlls = {}
  /\ dispatches = <<>>
  /\ out = <<>>
  /\ invoked = <<>>
  /\ abandoned = {}
  /\ fails = 0
  /\ announced = Undefined

AttemptUnderWay(S) ==
  \/ S.reconnectTimer # 0
  \/ \E i \in SockIds :
       S.socks[i].kind = "model" /\ S.socks[i].readyState = "CONNECTING"

(* The callback takes the program from Cur to S.                           *)
Step(S, ab, f) ==
  /\ Becomes(S)
  /\ abandoned' = ab \ Collected(S)
  /\ fails' = IF AttemptUnderWay(S) THEN f ELSE 0

Receiving(ws, kind) ==
  /\ socks[ws].kind = kind
  /\ socks[ws].readyState \in {"OPEN", "CLOSING"}

(* The router accepts a telephony connection.                              *)
AcceptCall ==
  Step(onConnection([Cur EXCEPT !.announced = Undefined], "call"),
       abandoned, 0)

(* The router accepts an observer connection.                              *)
AcceptLogs == Step(onConnection(Cur, "logs"), abandoned, fails)

(* A frame arrives on a telephony socket (frames keep arriving on a socket *)
(* whose closing handshake has started).                                   *)
TwilioFrame(ws, data, S) ==
  /\ Receiving(ws, "twilio")
  /\ Step(handleTwilioMessage(S, data),
          IF /\ data.type = "close"
             /\ session.modelConn # NoSock
             /\ socks[session.modelConn].readyState = "CONNECTING"
          THEN abandoned \cup {session.modelConn}
          ELSE abandoned,
          fails)

TwilioMessage(ws, data) == TwilioFrame(ws, data, Cur)

(* The same, keeping the record of the streamSid the session's telephony   *)
(* connection has announced (the specifications that do not need the       *)
(* record leave it Undefined).                                             *)
StreamMessage(ws, data) ==
  TwilioFrame(ws, data,
              [Cur EXCEPT !.announced =
                            IF data.type = "start" /\ ws = session.twilioConn
                            THEN data.streamSid ELSE @])

FrontendMessage(ws, data) ==
  /\ Receiving(ws, "frontend")
  /\ Step(handleFrontendMessage(Cur, data), abandoned, fails)

ModelMessage(ws, data) ==
  /\ Receiving(ws, "model")
  /\ Step(handleModelMessage([Cur EXCEPT !.on = ws], data), abandoned, fails)

(* A connecting model socket opens.                                        *)
ModelOpen(ws) ==
  /\ socks[ws].kind = "model"
  /\ socks[ws].readyState = "CONNECTING"
  /\ Step(modelOnOpen([Cur EXCEPT !.socks[ws].readyState = "OPEN"]),
          abandoned, 0)

(* A connecting model socket fails: its error event, then its close event, *)
(* in the same callback.                                                   *)
ModelConnectFail(ws) ==
  /\ socks[ws].kind = "model"
  /\ socks[ws].readyState = "CONNECTING"
  /\ Step(closeEvent(handleConnectionError(Cur, "model"), ws), abandoned,
          IF fails < maxReconnectAttempts THEN fails + 1 ELSE fails)

(* The error event of an open socket; its close event follows later.       *)
SocketError(ws) ==
  /\ socks[ws].readyState = "OPEN"
  /\ Step(handleConnectionError(
            [Cur EXCEPT !.socks[ws].readyState = "CLOSING"], socks[ws].kind),
          abandoned, fails)

SocketClose(ws) ==
  /\ socks[ws].readyState \in {"OPEN", "CLOSING"}
  /\ Step(closeEvent(Cur, ws), abandoned, fails)

(* The 5 s timer of an awaited cleanupConnection: the socket has not       *)
(* closed, it is terminated (its close event follows) and the promise      *)
(* resolves.                                                               *)
CleanupTimeout(ws) ==
  /\ ws \in UNION closeAlls
  /\ Step(settle(Cur, ws), abandoned, fails)

ReconnectTimerFires ==
  /\ reconnectTimer # 0
  /\ Step(reconnectTimerFires(Cur), abandoned, fails)

(* The promise of a function handler in flight settles.                    *)
FunctionSettles(i, settlement) ==
  /\ i \in DOMAIN dispatches
  /\ settlement \in Settlements(dispatches[i].name)
  /\ Step(functionSettles(Cur, i, settlement), abandoned, fails)

(* The events that do not depend on the frames' values.                    *)
Lifecycle ==
  \/ AcceptCall
  \/ AcceptLogs
  \/ \E ws \in SockIds : ModelOpen(ws)
  \/ \E ws \in SockIds : ModelConnectFail(ws)
  \/ \E ws \in SockIds : SocketError(ws)
  \/ \E ws \in SockIds : SocketClose(ws)
  \/ \E ws \in SockIds : CleanupTimeout(ws)
  \/ ReconnectTimerFires

(* Spec: every event, each kind of frame with one value.                   *)
Next ==
  \/ Lifecycle
  \/ \E ws \in SockIds : \E data \in TwilioMessages({"ABC"}, {500}) :
       TwilioMessage(ws, data)
  \/ \E ws \in SockIds : \E data \in FrontendMessages({Alloy}) :
       FrontendMessage(ws, data)
  \/ \E ws \in SockIds : \E data \in ModelEvents({"x1"}) :
       ModelMessage(ws, data)

Spec == Init /\ [][Next]_vars

(* SpecMedia: calls whose model leg connects at once and does not fail,    *)
(* with several media offsets and utterance ids (a delta may carry no item *)
(* id); the observer listens and sends nothing.                            *)
NextMedia ==
  \/ AcceptCall
  \/ AcceptLogs
  \/ \E ws \in SockIds : ModelOpen(ws)
  \/ \E ws \in SockIds : SocketClose(ws)
  \/ \E ws \in SockIds : CleanupTimeout(ws)
  \/ \E ws \in SockIds : \E data \in TwilioMessages({"", "ABC"}, {500, 800}) :
       StreamMessage(ws, data)
  \/ \E ws \in SockIds : \E data \in ModelEvents({Undefined, "x1", "x2"}) :
       ModelMessage(ws, data)

SpecMedia == Init /\ [][NextMedia]_vars

(* SpecConfig: the observer sends configuration updates with several       *)
(* payloads (session.update may carry no session object).                  *)
SessionPayloads ==
  {NoConfig,
   SomeConfig(EmptyObject),
   Alloy,
   SomeConfig([EmptyObject EXCEPT !.voice = "alloy", !.temperature = "0.6"])}

NextConfig ==
  \/ Lifecycle
  \/ \E ws \in SockIds : \E data \in TwilioMessages({"ABC"}, {}) :
       TwilioMessage(ws, data)
  \/ \E ws \in SockIds : \E data \in FrontendMessages(SessionPayloads) :
       FrontendMessage(ws, data)

SpecConfig == Init /\ [][NextConfig]_vars

(* SpecFn: calls whose model leg connects at once and does not fail, where *)
(* the model sends function calls with registered and unregistered names   *)
(* and with arguments that parse and that do not; no observer.             *)
FunctionNames == {getWeatherFromCoords, scheduleCalendlyMeeting, "nope"}

ArgumentsTexts == {"{}", "null", "{", Undefined}

AllSettlements ==
  Settlements(getWeatherFromCoords) \cup Settlements(scheduleCalendlyMeeting)

NextFn ==
  \/ AcceptCall
  \/ \E ws \in SockIds : ModelOpen(ws)
  \/ \E ws \in SockIds : SocketClose(ws)
  \/ \E ws \in SockIds : CleanupTimeout(ws)
  \/ \E ws \in SockIds : \E data \in TwilioMessages({"ABC"}, {}) :
       TwilioMessage(ws, data)
  \/ \E ws \in SockIds :
       \E data \in FunctionCalls(FunctionNames, ArgumentsTexts, {"c1"}) :
         ModelMessage(ws, data)
  \/ \E i \in 1 .. MaxDispatches : \E settlement \in AllSettlements :
       FunctionSettles(i, settlement)

SpecFn == Init /\ [][NextFn]_vars

(* SpecMirror: an observer listens to a call whose model leg sends every   *)
(* kind of event.                                                          *)
MirroredEvents ==
  ModelEvents({"x1"})
    \cup FunctionCalls({getWeatherFromCoords, "nope"}, {"{}"}, {"c1"})

NextMirror ==
  \/ AcceptCall
  \/ AcceptLogs
  \/ \E ws \in SockIds : ModelOpen(ws)
  \/ \E ws \in SockIds : SocketClose(ws)
  \/ \E ws \in SockIds :
       TwilioMessage(ws, [Frame("start") EXCEPT !.streamSid = "ABC"])
  \/ \E ws \in SockIds : \E data \in MirroredEvents : ModelMessage(ws, data)
  \/ \E i \in 1 .. MaxDispatches : \E settlement \in AllSettlements :
       FunctionSettles(i, settlement)

SpecMirror == Init /\ [][NextMirror]_vars

----------------------------------------------------------------------------
(* Consistency of the model itself.                                        *)

(* The connection handleCallConnection or handleFrontendConnection         *)
(* replaces is the one the router has just closed, so the cleanupConnection *)
(* they await never has a closing handshake to wait for.                   *)
PreviousConnectionNotOpen ==
  /\ isOpen(Cur, session.twilioConn) => session.twilioConn = currentCall
  /\ isOpen(Cur, session.frontendConn) => session.frontendConn = currentLogs

(* The session never refers to a socket that has closed, and the calls of  *)
(* closeAllConnections in progress wait for distinct closing sockets.      *)
HandlesAlive ==
  /\ \A ws \in Referenced(Cur) \ {NoSock} :
       socks[ws].kind # "none" /\ socks[ws].readyState # "CLOSED"
  /\ \A p \in closeAlls :
       /\ p # {}
       /\ \A ws \in p : socks[ws].readyState = "CLOSING"
       /\ \A q \in closeAlls : q # p => q \cap p = {}
  /\ reconnectAttempts \in 0 .. maxReconnectAttempts

----------------------------------------------------------------------------
(* Properties.                                                             *)

(* C1. Whenever handleCallConnection accepts a second telephony connection *)
(* while a first one is attached, the first session is fully torn down     *)
(* before the second is populated: after the accept the session holds no   *)
(* model connection, no streamSid and no utterance-tracking fields.        *)
C1_SecondCallTearsDownFirst ==
  [][(AcceptCall /\ session.twilioConn # NoSock) =>
       /\ session'.modelConn = NoSock
       /\ session'.streamSid = Undefined
       /\ session'.lastAssistantItem = Undefined
       /\ session'.responseStartTimestamp = NoNum]_vars

(* A model socket that has just been created.                              *)
Connecting(ss, ws) ==
  ss[ws].kind = "model" /\ ss[ws].readyState = "CONNECTING"

(* C2. A model connection is created, by a start event or by the reconnect *)
(* timer, only when the telephony handle, the streamSid and the credential *)
(* are all present in the session at that moment.                          *)
C2_ModelCreatedOnlyWithPrerequisites ==
  [][(\E ws \in SockIds : Connecting(socks', ws) /\ ~Connecting(socks, ws)) =>
       /\ session'.twilioConn # NoSock
       /\ session'.streamSid # Undefined
       /\ session'.openAIApiKey # Undefined]_vars

(* A reconnect attempt is under way: the session's model leg is connecting *)
(* after an earlier attempt failed.                                        *)
C2_Witness ==
  /\ session.modelConn # NoSock
  /\ Connecting(socks, session.modelConn)
  /\ fails = 1
  /\ session.twilioConn # NoSock
  /\ session.streamSid = "ABC"

(* C3. For consecutive failing connection attempts of the model leg within *)
(* one call, the reconnect delays scheduled are 1000, 2000 and 4000 ms,    *)
(* and after 3 failed attempts no reconnect is scheduled.                  *)
C3_BackoffSequence ==
  [][\A ws \in SockIds :
       (/\ ModelConnectFail(ws)
        /\ ws = session.modelConn
        /\ session.twilioConn # NoSock
        /\ session'.twilioConn # NoSock) =>
         reconnectTimer' =
           IF fails < maxReconnectAttempts
           THEN (2 ^ fails) * BackoffBaseMs
           ELSE 0]_vars

(* C4. When the transport of the session's telephony leg closes, the model *)
(* leg is torn down and every Session field is cleared, except the         *)
(* observer handle, which is left as it is and stays open.                 *)
C4_TelephonyCloseClearsSession ==
  [][\A ws \in SockIds :
       (SocketClose(ws) /\ ws = session.twilioConn) =>
         /\ session' = [EmptySession EXCEPT
                          !.frontendConn = session.frontendConn]
         /\ session.frontendConn # NoSock =>
              socks'[session.frontendConn] = socks[session.frontendConn]]_vars

(* C5. After every callback, if the session holds none of the three peers  *)
(* then the Session record is empty, the reconnect counter is 0 and no     *)
(* reconnect timer is pending.                                             *)
C5_NoPeersNoSession ==
  (/\ session.twilioConn = NoSock
   /\ session.frontendConn = NoSock
   /\ session.modelConn = NoSock) =>
    /\ session = EmptySession
    /\ reconnectAttempts = 0
    /\ reconnectTimer = 0

(* C6. The utterance id and the playback start offset are either both      *)
(* absent or both present.                                                 *)
C6_UtteranceFieldsTogether ==
  (session.lastAssistantItem = Undefined)
    <=> (session.responseStartTimestamp = NoNum)

SpeechStarted == Frame("input_audio_buffer.speech_started")

(* C7. When truncation runs with an active utterance and the model leg     *)
(* open, the truncate event it sends carries audio_end_ms = latest media   *)
(* offset - playback start offset when that is not negative and 0          *)
(* otherwise, and afterwards both utterance-tracking fields are cleared.   *)
C7_TruncateElapsedClamped ==
  [][\A ws \in SockIds :
       (/\ ModelMessage(ws, SpeechStarted)
        /\ session.lastAssistantItem # Undefined
        /\ session.responseStartTimestamp # NoNum
        /\ isOpen(Cur, session.modelConn)) =>
         /\ \E i \in DOMAIN out' :
              /\ out'[i].to = session.modelConn
              /\ out'[i].frame =
                   [Frame("conversation.item.truncate") EXCEPT
                      !.item_id = session.lastAssistantItem,
                      !.content_index = 0,
                      !.audio_end_ms =
                        IF session.latestMediaTimestamp
                             >= session.responseStartTimestamp
                        THEN session.latestMediaTimestamp
                               - session.responseStartTimestamp
                        ELSE 0]
              /\ \A j \in DOMAIN out' :
                   out'[j].frame.type = "conversation.item.truncate" => j = i
         /\ session'.lastAssistantItem = Undefined
         /\ session'.responseStartTimestamp = NoNum]_vars

(* Utterance x1 started at offset 500 and was cut at offset 800.           *)
C7_Witness ==
  /\ session.latestMediaTimestamp = 800
  /\ session.lastAssistantItem = Undefined
  /\ session.responseStartTimestamp = NoNum
  /\ \E i \in DOMAIN out :
       /\ out[i].to = session.modelConn
       /\ out[i].frame.type = "conversation.item.truncate"
       /\ out[i].frame.item_id = "x1"
       /\ out[i].frame.audio_end_ms = 300

(* C8. A speech_started event received while no utterance id is tracked    *)
(* sends no truncate event to the model leg and no clear event to the      *)
(* telephony leg (the event is only mirrored to the observer) and leaves   *)
(* every Session field unchanged.                                          *)
C8_TruncationWithoutUtteranceIsNoOp ==
  [][\A ws \in SockIds :
       (/\ ModelMessage(ws, SpeechStarted)
        /\ session.lastAssistantItem = Undefined) =>
         /\ session' = session
         /\ \A i \in DOMAIN out' :
              /\ out'[i].to = session.frontendConn
              /\ out'[i].frame = SpeechStarted
         /\ Len(out') <= 1
         /\ reconnectTimer' = reconnectTimer
         /\ reconnectAttempts' = reconnectAttempts
         /\ socks' = socks]_vars

(* A speech_started event has been handled with no utterance tracked: the  *)
(* observer got its copy and nothing else was sent.                        *)
C8_Witness ==
  /\ out = << [to |-> session.frontendConn, frame |-> SpeechStarted] >>
  /\ session.lastAssistantItem = Undefined

(* C9. A session.update message of the observer is stored as the saved     *)
(* configuration as it came, and when the session's model leg opens, the   *)
(* configuration event sent to it is the default with each top-level key   *)
(* of the saved configuration replacing the default's key of that name.    *)
C9_SavedConfigOverridesDefault ==
  [][/\ \A ws \in SockIds : \A c \in SessionPayloads :
          FrontendMessage(ws, [Frame("session.update") EXCEPT !.session = c])
            => session'.saved_config = c
     /\ \A ws \in SockIds :
          (ModelOpen(ws) /\ ws = session.modelConn) =>
            out' = << [to |-> ws,
                       frame |->
                         [Frame("session.update") EXCEPT
                            !.session =
                              SomeConfig(
                                [k \in ConfigKeys |->
                                   IF /\ session.saved_config.defined
                                      /\ session.saved_config.obj[k] # Absent
                                   THEN session.saved_config.obj[k]
                                   ELSE DefaultSessionConfig[k]])]] >>]_vars

(* The model leg has opened after the observer set the voice: the          *)
(* configuration sent has the voice of the update and the defaults         *)
(* elsewhere.                                                              *)
C9_Witness ==
  /\ session.saved_config = Alloy
  /\ out = << [to |-> session.modelConn,
               frame |->
                 [Frame("session.update") EXCEPT
                    !.session =
                      SomeConfig([DefaultSessionConfig EXCEPT
                                    !.voice = "alloy"])]] >>

(* C10. When a telephony close frame follows the start frame before the    *)
(* model leg has opened, the pending model connection is never sent a      *)
(* frame, not even after it opens, and closeAllConnections ends with the   *)
(* Session record empty.                                                   *)
C10_CloseBeforeModelOpen ==
  [][/\ \A i \in DOMAIN out' : out'[i].to \notin abandoned
     /\ (\E p \in closeAlls : \A q \in closeAlls' : ~(q \subseteq p))
          => session' = EmptySession
     /\ \A ws \in SockIds :
          (TwilioMessage(ws, Frame("close")) /\ closeAlls' = closeAlls)
            => session' = EmptySession]_vars

(* The pending model connection has opened after the close frame, and the  *)
(* session is empty.                                                       *)
C10_Witness ==
  /\ \E ws \in abandoned : socks[ws].readyState = "OPEN"
  /\ session = EmptySession
  /\ closeAlls = {}

(* A function call of the model, as the event that carries it.             *)
FunctionCallDone(n, a, c) ==
  [Frame("response.output_item.done") EXCEPT
     !.item = [NoItem EXCEPT !.type = "function_call", !.name = n,
                             !.arguments = a, !.call_id = c]]

(* The function_call_output event for call id c with dispatch result r.    *)
FunctionCallOutput(c, r) ==
  [Frame("conversation.item.create") EXCEPT
     !.item = [NoItem EXCEPT !.type = "function_call_output",
                             !.call_id = c,
                             !.output = "'" \o r \o "'"]]

InvalidArguments == "{error:Invalid JSON arguments for function call.}"

(* C11. For every function name, registered or not, a function call whose  *)
(* arguments text cannot be parsed invokes no handler and is answered (the *)
(* model leg being open) with the payload                                  *)
(* {error: "Invalid JSON arguments for function call."}.                   *)
C11_UnparsableArgumentsAnyName ==
  [][\A ws \in SockIds : \A n \in FunctionNames : \A a \in {"{", Undefined} :
       (/\ ModelMessage(ws, FunctionCallDone(n, a, "c1"))
        /\ isOpen(Cur, session.modelConn)) =>
         /\ invoked' = <<>>
         /\ dispatches' = dispatches
         /\ \E i \in DOMAIN out' :
              /\ out'[i].to = session.modelConn
              /\ out'[i].frame = FunctionCallOutput("c1", InvalidArguments)]_vars

(* C12. A function call with an unknown name invokes no handler and is     *)
(* answered with an error payload that names the function; a handler that  *)
(* throws is answered with {error: "Error running function <name>:         *)
(* <message>"}; in both cases the callback leaves the session and the      *)
(* sockets as they were.                                                   *)
C12_DispatchErrorsBecomePayloads ==
  [][/\ \A ws \in SockIds : \A a \in ArgumentsTexts :
          ModelMessage(ws, FunctionCallDone("nope", a, "c1")) =>
            /\ invoked' = <<>>
            /\ dispatches' = dispatches
            /\ session' = session
            /\ socks' = socks
            /\ isOpen(Cur, session.modelConn) =>
                 \E i \in DOMAIN out' :
                   /\ out'[i].to = session.modelConn
                   /\ out'[i].frame =
                        FunctionCallOutput("c1",
                          "{error:Error running function nope: "
                            \o "No handler found for function: nope}")
     /\ \A i \in 1 .. MaxDispatches :
          FunctionSettles(i, [ok |-> FALSE, value |-> "fetch failed"]) =>
            /\ session' = session
            /\ socks' = socks
            /\ invoked' = <<>>
            /\ isOpen(Cur, session.modelConn) =>
                 out' =
                   << [to |-> session.modelConn,
                       frame |->
                         FunctionCallOutput(dispatches[i].call_id,
                           "{error:Error running function "
                             \o dispatches[i].name \o ": fetch failed}")],
                      [to |-> session.modelConn,
                       frame |-> Frame("response.create")] >>]_vars

(* The weather handler has thrown and the model leg got the error payload. *)
C12_Witness ==
  /\ isOpen(Cur, session.modelConn)
  /\ Len(out) = 2
  /\ out[1] = [to |-> session.modelConn,
               frame |->
                 FunctionCallOutput("c1",
                   "{error:Error running function get_weather_from_coords: "
                     \o "fetch failed}")]

(* C13. Whenever the session's model leg closes without the orchestrator   *)
(* having closed it (its close event, after an error event or without      *)
(* one), while the telephony leg is open and fewer than                    *)
(* maxReconnectAttempts attempts are counted, a reconnect is scheduled.    *)
C13_UnexpectedModelCloseReconnects ==
  [][\A ws \in SockIds :
       (/\ SocketClose(ws) \/ ModelConnectFail(ws)
        /\ ws = session.modelConn
        /\ socks[ws].readyState \in {"OPEN", "CONNECTING"}
        /\ isOpen(Cur, session.twilioConn)
        /\ reconnectAttempts < maxReconnectAttempts) =>
         reconnectTimer' # 0]_vars

(* C14. A pending reconnect timer is cleared whenever a model connection   *)
(* attempt is made (a new model socket is created) and whenever the        *)
(* session is reset: after such a callback no reconnect timer is pending.  *)
C14_SupersededTimerCleared ==
  [][/\ (\E ws \in SockIds : Connecting(socks', ws) /\ ~Connecting(socks, ws))
          => reconnectTimer' = 0
     /\ (session # EmptySession /\ session' = EmptySession)
          => reconnectTimer' = 0]_vars

(* C15. While a function-call dispatch asked for by an event of a model    *)
(* connection is in flight, no further event of that connection is         *)
(* handled: the next one is handled after the dispatch has completed.      *)
C15_DispatchAwaitedBeforeNextEvent ==
  [][\A ws \in SockIds :
       \A data \in FunctionCalls(FunctionNames, ArgumentsTexts, {"c1"}) :
         ModelMessage(ws, data) =>
           \A i \in DOMAIN dispatches : dispatches[i].from # ws]_vars

(* C16. An audio delta whose item id is not the tracked utterance id (or   *)
(* none is tracked), handled while the call's stream is known, sets the    *)
(* playback start offset to the latest media offset and makes its item id  *)
(* the tracked utterance id (stated for the states where an offset is      *)
(* tracked only together with an utterance id).                            *)
C16_NewUtteranceRestartsOffset ==
  [][\A ws \in SockIds : \A i \in {"x1", "x2"} :
       (/\ ModelMessage(ws, [Frame("response.audio.delta") EXCEPT
                               !.item_id = i])
        /\ i # session.lastAssistantItem
        /\ (session.lastAssistantItem = Undefined
              <=> session.responseStartTimestamp = NoNum)
        /\ session.twilioConn # NoSock
        /\ session.streamSid = "ABC") =>
         /\ session'.responseStartTimestamp = session.latestMediaTimestamp
         /\ session'.lastAssistantItem = i]_vars

(* C17. When the promise of a handler in flight is fulfilled, the          *)
(* callback sends to the session's model leg, if it is open, the           *)
(* function_call_output event with the call id and the handler's result    *)
(* and then response.create, and nothing else; if the session has no open  *)
(* model leg it sends nothing.  A call that completes in the callback that *)
(* received it is answered the same way.  Only its own completion takes a  *)
(* dispatch out of flight: no teardown does.                               *)
C17_OutputThenResponseCreate ==
  [][/\ \A i \in 1 .. MaxDispatches : \A text \in {"{temp:21}", "{success:true}"} :
          FunctionSettles(i, [ok |-> TRUE, value |-> text]) =>
            out' = IF isOpen(Cur, session.modelConn)
                   THEN << [to |-> session.modelConn,
                            frame |-> FunctionCallOutput(dispatches[i].call_id,
                                                         text)],
                           [to |-> session.modelConn,
                            frame |-> Frame("response.create")] >>
                   ELSE <<>>
     /\ \A ws \in SockIds :
          ModelMessage(ws, FunctionCallDone(scheduleCalendlyMeeting, "null",
                                            "c1")) =>
            out' = IF isOpen(Cur, session.modelConn)
                   THEN << [to |-> session.modelConn,
                            frame |-> FunctionCallOutput("c1",
                                                         "{success:false}")],
                           [to |-> session.modelConn,
                            frame |-> Frame("response.create")] >>
                   ELSE <<>>
     /\ Len(dispatches') < Len(dispatches) =>
          \E i \in 1 .. MaxDispatches : \E settlement \in AllSettlements :
            FunctionSettles(i, settlement)]_vars

(* The weather handler has completed and the model leg got its result and  *)
(* the request for a new response.                                         *)
C17_Witness ==
  /\ isOpen(Cur, session.modelConn)
  /\ out = << [to |-> session.modelConn,
               frame |-> FunctionCallOutput("c1", "{temp:21}")],
              [to |-> session.modelConn,
               frame |-> Frame("response.create")] >>

(* C18. Every well-formed event of a model connection is sent as it came   *)
(* to the observer leg, if that is open, before anything else the callback *)
(* sends, and once; a malformed frame sends nothing and changes nothing.   *)
C18_ModelEventsMirroredFirst ==
  [][\A ws \in SockIds : \A data \in MirroredEvents :
       ModelMessage(ws, data) =>
         IF data = Malformed
         THEN /\ out' = <<>>
              /\ invoked' = <<>>
              /\ session' = session
              /\ socks' = socks
              /\ dispatches' = dispatches
              /\ reconnectTimer' = reconnectTimer
         ELSE IF isOpen(Cur, session.frontendConn)
         THEN /\ Len(out') >= 1
              /\ out'[1] = [to |-> session.frontendConn, frame |-> data]
              /\ \A j \in DOMAIN out' :
                   out'[j].to = session.frontendConn => j = 1
         ELSE \A j \in DOMAIN out' : out'[j].to # session.frontendConn]_vars

(* An audio delta has been mirrored to the observer and then forwarded to  *)
(* the telephony leg.                                                      *)
C18_Witness ==
  /\ Len(out) = 3
  /\ out[1] = [to |-> session.frontendConn,
               frame |-> [Frame("response.audio.delta") EXCEPT
                            !.item_id = "x1"]]
  /\ out[2].to = session.twilioConn
  /\ out[2].frame.type = "media"

(* C19. The close or error event of a telephony socket that is no longer   *)
(* the session's telephony leg (a newer call has replaced it) leaves the   *)
(* newer telephony connection open and in the session, and leaves the      *)
(* session's model leg as it is.                                           *)
C19_LateCloseOfSupersededCall ==
  [][\A ws \in SockIds :
       (/\ SocketClose(ws) \/ SocketError(ws)
        /\ socks[ws].kind = "twilio"
        /\ session.twilioConn # NoSock
        /\ ws # session.twilioConn) =>
         /\ session'.twilioConn = session.twilioConn
         /\ socks'[session.twilioConn] = socks[session.twilioConn]
         /\ session'.modelConn = session.modelConn
         /\ session.modelConn # NoSock =>
              socks'[session.modelConn] = socks[session.modelConn]]_vars

(* C20. At most one model connection is alive (connecting or open) at any  *)
(* time.                                                                   *)
C20_OneModelConnectionAlive ==
  Cardinality({ws \in SockIds :
                 /\ socks[ws].kind = "model"
                 /\ socks[ws].readyState \in {"CONNECTING", "OPEN"}}) <= 1

(* C21. A model connection that was the session's model leg, still         *)
(* connecting, when the call was torn down by a telephony close frame is   *)
(* closed by the teardown: it is never open afterwards with no handle of   *)
(* the session referring to it.                                            *)
C21_AbandonedModelNeverOpen ==
  \A ws \in abandoned :
    ws # session.modelConn => socks[ws].readyState # "OPEN"

(* C22. Every media, mark and clear frame is sent to the session's         *)
(* telephony connection after that connection's own start event and        *)
(* carries the streamSid that event announced.                             *)
C22_FramesCarryOwnStreamSid ==
  [][\A i \in DOMAIN out' :
       out'[i].frame.type \in {"media", "mark", "clear"} =>
         /\ out'[i].to = session.twilioConn
         /\ announced # Undefined
         /\ out'[i].frame.streamSid = announced]_vars

(* C23. When a closeAllConnections that was waiting for its graceful       *)
(* closes completes, the telephony or observer connection the session      *)
(* holds (accepted while the closes were pending, since                    *)
(* closeAllConnections had cleared every handle) keeps its handle, and the *)
(* telephony connection its credential and streamSid.                      *)
C23_ResetKeepsConnectionsAcceptedDuringTeardown ==
  [][\A ws \in SockIds :
       (/\ ws \in UNION closeAlls
        /\ CleanupTimeout(ws) \/ SocketClose(ws)) =>
         /\ (CleanupTimeout(ws) /\ session.twilioConn # NoSock) =>
              /\ session'.twilioConn = session.twilioConn
              /\ session'.openAIApiKey = session.openAIApiKey
              /\ session'.streamSid = session.streamSid
         /\ session.frontendConn # NoSock =>
              session'.frontendConn = session.frontendConn]_vars

====
